---- MODULE Spec2Model ----
(***************************************************************************)
(* Model of pyrednertensorflow/render_tensorflow.py: the flattening of a   *)
(* scene into a positional argument list (serialize_scene), its            *)
(* reconstruction and the forward engine call (forward), and the gradient  *)
(* list assembled by the backward closure of render.                       *)
(*                                                                         *)
(* A tensor is a record [f, shape, v]: f is the name of the expression     *)
(* the flattener appended (forward never reads it, it reads by position),  *)
(* shape is the tensor's shape, v holds the integer entries of small       *)
(* integer tensors (<<>> for float buffers, whose contents the engine      *)
(* alone reads through raw pointers).                                      *)
(***************************************************************************)
EXTENDS Integers, Sequences, FiniteSets, TLC

\* ---------------------------------------------------------------- bounds
MaxShapes == 2
MaxMaterials == 2
MaxLights == 2
MaxChannels == 2
MaxCalls == 2
MaxBackward == 2
MaxTamper == 1

\* ------------------------------------------------------ program constants
SeedOffset == 1000003
EnvmapSlots == 7

Seeds == {5, 11}

\* ---------------------------------------------------------------- tensors
RECURSIVE Size(_)
\* tf.size: the number of elements, the product of the dimensions
Size(shape) == IF shape = <<>> THEN 1 ELSE Head(shape) * Size(Tail(shape))

\* len(t.get_shape())
get_tensor_dimension(t) == Len(t.shape)

\* tf.equal(tf.size(tensor), 0)
is_empty_tensor(t) == Size(t.shape) = 0

\* tf.constant(n) of a Python integer or boolean
Scalar(name, n) == [f |-> name, shape |-> <<>>, v |-> <<n>>]

\* a float tensor of the scene
Buf(name, shape) == [f |-> name, shape |-> shape, v |-> <<>>]

\* __EMPTY_TENSOR = tf.constant([])
EMPTY_TENSOR == [f |-> "__EMPTY_TENSOR", shape |-> <<0>>, v |-> <<>>]

\* tf.constant(x) of an integer or of a tuple of integers
Constant(name, xs) ==
    IF Len(xs) = 1 THEN Scalar(name, xs[1])
    ELSE [f |-> name, shape |-> <<Len(xs)>>, v |-> xs]

BoolInt(b) == IF b THEN 1 ELSE 0

\* ------------------------------------------------- tag translation tables
CameraTypes == <<"perspective", "orthographic", "fisheye">>
ChannelTags == <<"radiance", "alpha", "depth">>
SamplerTypes == <<"independent", "sobol">>

IndexOf(table, tag) == CHOOSE i \in 1..Len(table) : table[i] = tag

\* RednerCameraType.asTensor / RednerChannels.asTensor / RednerSamplerType.asTensor
asTensor(table, name, tag) == Scalar(name, IndexOf(table, tag) - 1)

\* asCameraType / asChannel / asSamplerType: defined on the codes of the table
TagOk(table, t) == Size(t.shape) = 1 /\ Len(t.v) = 1 /\ t.v[1] + 1 \in 1..Len(table)
asTag(table, t) == table[t.v[1] + 1]

\* ------------------------------------------------------------ the scenes
\* Shapes, materials and lights of the scenes the caller builds.  Shape i
\* has 3+i vertices; which optional buffers and which texture kinds are
\* present varies with the index and the variant k.
ConstTex3 == <<3>>
ConstTex1 == <<1>>
MipTex3 == <<2, 4, 8, 3>>
MipTex1 == <<2, 4, 8, 1>>
EnvTex == <<3, 2, 4, 3>>

MkShape(i, k, M) ==
    [nv |-> 3 + i, nt |-> 1 + i,
     uvs |-> ((i + k) % 2 = 0), normals |-> (i % 2 = 0),
     material_id |-> IF M = 0 THEN 0 ELSE (i + k) % M, light_id |-> -1]

MkMaterial(j, k) ==
    [diffuse |-> IF (j + k) % 2 = 0 THEN MipTex3 ELSE ConstTex3,
     specular |-> IF j % 2 = 0 THEN ConstTex3 ELSE MipTex3,
     roughness |-> IF k = 1 THEN MipTex1 ELSE ConstTex1,
     two_sided |-> (j % 2 = 1)]

\* light l sits on shape S-1-l, so a light's index differs from its shape's
MkLight(l, S) == [shape_id |-> S - 1 - l, two_sided |-> (l % 2 = 0)]

MkScene(S, M, L, env, k) ==
    [camera_type |-> IF k = 0 THEN "perspective" ELSE "fisheye",
     shapes |-> [i \in 1..S |-> MkShape(i - 1, k, M)],
     materials |-> [j \in 1..M |-> MkMaterial(j - 1, k)],
     area_lights |-> [l \in 1..L |-> MkLight(l - 1, S)],
     envmap |-> env]

\* every shape's material and every light's shape exist, and no shape
\* carries two lights
WellFormed(s) ==
    /\ \A i \in 1..Len(s.shapes) :
          s.shapes[i].material_id \in 0..Len(s.materials) - 1
    /\ \A l \in 1..Len(s.area_lights) :
          s.area_lights[l].shape_id \in 0..Len(s.shapes) - 1
    /\ \A l1, l2 \in 1..Len(s.area_lights) :
          s.area_lights[l1].shape_id = s.area_lights[l2].shape_id => l1 = l2

\* num_samples: an integer n is <<n>>, a tuple (f, b) is <<f, b>>
NumSamplesChoices == { <<1>>, <<4>>, <<4, 2>> }

MkOptions(ns, C, k) ==
    [num_samples |-> ns, max_bounces |-> 1,
     channels |-> [c \in 1..C |-> ChannelTags[((c + k - 1) % Len(ChannelTags)) + 1]],
     sampler_type |-> IF k = 0 THEN "independent" ELSE "sobol",
     use_primary_edge_sampling |-> (k = 0),
     use_secondary_edge_sampling |-> TRUE]

\* the test cases: a scene and the options it is rendered with
Cases ==
    { c \in { [scene |-> MkScene(S, M, L, env, k), opts |-> MkOptions(ns, C, k)] :
                S \in 0..MaxShapes, M \in 0..MaxMaterials, L \in 0..MaxLights,
                env \in BOOLEAN, k \in 0..1,
                ns \in NumSamplesChoices, C \in 1..MaxChannels } :
        WellFormed(c.scene) }

\* ------------------------------------------------------- serialize_scene
\* lines 100-101: every light's shape record is annotated with the light's
\* index, in list order (a later light overwrites an earlier one)
annotate_skipped(shapes, lights, l) == shapes

RECURSIVE annotate(_, _, _)
annotate(shapes, lights, l) ==
    IF l > Len(lights) THEN shapes
    ELSE annotate([shapes EXCEPT ![lights[l].shape_id + 1].light_id = l - 1],
                  lights, l + 1)

\* the list shortened where an optional buffer is absent
shape_args_short(sh) ==
    << Buf("vertices", <<sh.nv, 3>>),
       [f |-> "indices", shape |-> <<sh.nt, 3>>, v |-> <<>>] >>
    \o (IF sh.uvs THEN << Buf("uvs", <<sh.nv, 2>>) >> ELSE <<>>)
    \o (IF sh.normals THEN << Buf("normals", <<sh.nv, 3>>) >> ELSE <<>>)
    \o << Scalar("material_id", sh.material_id),
          Scalar("light_id", sh.light_id) >>

shape_args(sh) ==
    << Buf("vertices", <<sh.nv, 3>>),
       [f |-> "indices", shape |-> <<sh.nt, 3>>, v |-> <<>>],
       IF sh.uvs THEN Buf("uvs", <<sh.nv, 2>>) ELSE EMPTY_TENSOR,
       IF sh.normals THEN Buf("normals", <<sh.nv, 3>>) ELSE EMPTY_TENSOR,
       Scalar("material_id", sh.material_id),
       Scalar("light_id", sh.light_id) >>

material_args(m) ==
    << Buf("diffuse_reflectance", m.diffuse), Buf("diffuse_uv_scale", <<2>>),
       Buf("specular_reflectance", m.specular), Buf("specular_uv_scale", <<2>>),
       Buf("roughness", m.roughness), Buf("roughness_uv_scale", <<2>>),
       Scalar("two_sided", BoolInt(m.two_sided)) >>

light_args(l) ==
    << Scalar("light_shape_id", l.shape_id), Buf("intensity", <<3>>),
       Scalar("light_two_sided", BoolInt(l.two_sided)) >>

envmap_args(env) ==
    IF env
    THEN << Buf("envmap_values", EnvTex), Buf("envmap_uv_scale", <<2>>),
            Buf("env_to_world", <<4, 4>>), Buf("world_to_env", <<4, 4>>),
            Buf("sample_cdf_ys", <<2>>), Buf("sample_cdf_xs", <<2, 4>>),
            Buf("pdf_norm", <<>>) >>
    ELSE << EMPTY_TENSOR, EMPTY_TENSOR, EMPTY_TENSOR, EMPTY_TENSOR,
            EMPTY_TENSOR, EMPTY_TENSOR, EMPTY_TENSOR >>

RECURSIVE Concat(_)
\* the slots appended for the records of a list, in list order
Concat(groups) ==
    IF groups = <<>> THEN <<>> ELSE Head(groups) \o Concat(Tail(groups))

channel_arg(ch) == << asTensor(ChannelTags, "channel", ch) >>

\* the list serialize_scene returns for the scene as annotated
serialize_scene(s, o) ==
    << Scalar("num_shapes", Len(s.shapes)),
       Scalar("num_materials", Len(s.materials)),
       Scalar("num_lights", Len(s.area_lights)),
       Buf("position", <<3>>), Buf("look_at", <<3>>), Buf("up", <<3>>),
       Buf("ndc_to_cam", <<3, 3>>), Buf("cam_to_ndc", <<3, 3>>),
       Buf("clip_near", <<>>),
       Constant("resolution", <<2, 4>>),
       asTensor(CameraTypes, "camera_type", s.camera_type) >>
    \o Concat([i \in 1..Len(s.shapes) |-> shape_args(s.shapes[i])])
    \o Concat([i \in 1..Len(s.materials) |-> material_args(s.materials[i])])
    \o Concat([i \in 1..Len(s.area_lights) |-> light_args(s.area_lights[i])])
    \o envmap_args(s.envmap)
    \o << Constant("num_samples", o.num_samples),
          Scalar("max_bounces", o.max_bounces),
          Scalar("num_channels", Len(o.channels)) >>
    \o Concat([i \in 1..Len(o.channels) |-> channel_arg(o.channels[i])])
    \o << asTensor(SamplerTypes, "sampler_type", o.sampler_type),
          Scalar("use_primary_edge_sampling", BoolInt(o.use_primary_edge_sampling)),
          Scalar("use_secondary_edge_sampling", BoolInt(o.use_secondary_edge_sampling)) >>

\* ---------------------------------------------------------------- forward
\* int(t), float(t), bool(t) of a tensor: only a one-element tensor converts
converts(t) == Size(t.shape) = 1
int(t) == IF Len(t.v) = 1 THEN t.v[1] ELSE 0

\* pyredner.data_ptr(t): the address of the tensor's buffer; the buffer of a
\* tensor without elements is either null or allocated (ep)
data_ptr(t, ep) == IF Size(t.shape) = 0 THEN ep ELSE 1

Failed(idx) == [ok |-> FALSE, idx |-> idx, recs |-> <<>>]

\* lines 214-235: one redner.Shape per declared shape
RECURSIVE read_shapes(_, _, _, _)
read_shapes(a, idx, n, ep) ==
    IF n <= 0 THEN [ok |-> TRUE, idx |-> idx, recs |-> <<>>]
    ELSE IF idx + 6 > Len(a) THEN Failed(idx)
    ELSE LET vertices == a[idx + 1]
             indices == a[idx + 2]
             uvs == a[idx + 3]
             normals == a[idx + 4]
         IN  IF ~ ( /\ converts(a[idx + 5]) /\ converts(a[idx + 6])
                    /\ Len(vertices.shape) >= 1 /\ Len(indices.shape) >= 1 )
             THEN Failed(idx)
             ELSE LET rest == read_shapes(a, idx + 6, n - 1, ep)
                      rec == [uvs_ptr |-> data_ptr(uvs, ep),
                              normals_ptr |-> data_ptr(normals, ep),
                              num_vertices |-> vertices.shape[1],
                              num_triangles |-> indices.shape[1],
                              material_id |-> int(a[idx + 5]),
                              light_id |-> int(a[idx + 6])]
                  IN  [ok |-> rest.ok, idx |-> rest.idx,
                       recs |-> IF rest.ok THEN <<rec>> \o rest.recs ELSE <<>>]

\* lines 255-288: a rank-1 tensor is a constant texture of extents 0,0,0; any
\* other tensor is read as a mipmap: width shape[2], height shape[1], levels
\* shape[0]
texture_ok(t, asserted) ==
    \/ get_tensor_dimension(t) = 1
    \/ /\ get_tensor_dimension(t) >= 3
       /\ asserted => get_tensor_dimension(t) = 4

texture_size(t) ==
    IF get_tensor_dimension(t) = 1 THEN <<0, 0, 0>>
    ELSE <<t.shape[3], t.shape[2], t.shape[1]>>

\* lines 239-293: one redner.Material per declared material
RECURSIVE read_materials(_, _, _)
read_materials(a, idx, n) ==
    IF n <= 0 THEN [ok |-> TRUE, idx |-> idx, recs |-> <<>>]
    ELSE IF idx + 7 > Len(a) THEN Failed(idx)
    ELSE IF ~ ( /\ converts(a[idx + 7])
                /\ texture_ok(a[idx + 1], FALSE)
                /\ texture_ok(a[idx + 3], FALSE)
                /\ texture_ok(a[idx + 5], TRUE) )
         THEN Failed(idx)
         ELSE LET rest == read_materials(a, idx + 7, n - 1)
                  rec == [diffuse_size |-> texture_size(a[idx + 1]),
                          specular_size |-> texture_size(a[idx + 3]),
                          roughness_size |-> texture_size(a[idx + 5]),
                          two_sided |-> int(a[idx + 7]) # 0]
              IN  [ok |-> rest.ok, idx |-> rest.idx,
                   recs |-> IF rest.ok THEN <<rec>> \o rest.recs ELSE <<>>]

\* lines 296-307: one redner.AreaLight per declared light
RECURSIVE read_lights(_, _, _)
read_lights(a, idx, n) ==
    IF n <= 0 THEN [ok |-> TRUE, idx |-> idx, recs |-> <<>>]
    ELSE IF idx + 3 > Len(a) THEN Failed(idx)
    ELSE IF ~ (converts(a[idx + 1]) /\ converts(a[idx + 3])) THEN Failed(idx)
         ELSE LET rest == read_lights(a, idx + 3, n - 1)
                  rec == [shape_id |-> int(a[idx + 1]),
                          two_sided |-> int(a[idx + 3]) # 0]
              IN  [ok |-> rest.ok, idx |-> rest.idx,
                   recs |-> IF rest.ok THEN <<rec>> \o rest.recs ELSE <<>>]

NoEnvmap == [present |-> FALSE, size |-> <<0, 0, 0>>]

\* lines 309-343: the block is rebuilt when its first slot is not empty, and
\* stepped over as a unit otherwise
read_envmap(a, idx) ==
    IF idx + 1 > Len(a) THEN Failed(idx)
    ELSE IF ~ is_empty_tensor(a[idx + 1])
         THEN IF idx + 7 > Len(a) THEN Failed(idx)
              ELSE IF ~ (converts(a[idx + 7]) /\ get_tensor_dimension(a[idx + 1]) >= 3)
                   THEN Failed(idx)
                   ELSE [ok |-> TRUE, idx |-> idx + 7,
                         recs |-> [present |-> TRUE,
                                   size |-> <<a[idx + 1].shape[3], a[idx + 1].shape[2],
                                              a[idx + 1].shape[1]>>]]
         ELSE [ok |-> TRUE, idx |-> idx + EnvmapSlots, recs |-> NoEnvmap]

\* lines 354-359: one channel tag per declared channel
RECURSIVE read_channels(_, _, _)
read_channels(a, idx, n) ==
    IF n <= 0 THEN [ok |-> TRUE, idx |-> idx, recs |-> <<>>]
    ELSE IF idx + 1 > Len(a) THEN Failed(idx)
    ELSE IF ~ TagOk(ChannelTags, a[idx + 1]) THEN Failed(idx)
         ELSE LET rest == read_channels(a, idx + 1, n - 1)
              IN  [ok |-> rest.ok, idx |-> rest.idx,
                   recs |-> IF rest.ok THEN <<asTag(ChannelTags, a[idx + 1])>> \o rest.recs
                            ELSE <<>>]

NoParse(idx) ==
    [ok |-> FALSE, current_index |-> idx, camera_type |-> "", shapes |-> <<>>,
     materials |-> <<>>, area_lights |-> <<>>, envmap |-> NoEnvmap,
     num_samples |-> <<0, 0>>, max_bounces |-> 0, channels |-> <<>>,
     sampler_type |-> "", use_primary_edge_sampling |-> FALSE,
     use_secondary_edge_sampling |-> FALSE]

\* lines 176-383: the walk over the list; ok is FALSE when a read is past the
\* end of the list or a conversion raises, current_index is then the index
\* of the group the walk stopped in
unpack(a, ep) ==
    IF Len(a) < 11 THEN NoParse(Len(a))
    ELSE IF ~ ( /\ converts(a[1]) /\ converts(a[2]) /\ converts(a[3])
                /\ converts(a[9]) /\ Size(a[10].shape) >= 2
                /\ TagOk(CameraTypes, a[11]) )
    THEN NoParse(0)
    ELSE
    LET sh == read_shapes(a, 11, int(a[1]), ep) IN
    IF ~ sh.ok THEN NoParse(sh.idx) ELSE
    LET mt == read_materials(a, sh.idx, int(a[2])) IN
    IF ~ mt.ok THEN NoParse(mt.idx) ELSE
    LET lt == read_lights(a, mt.idx, int(a[3])) IN
    IF ~ lt.ok THEN NoParse(lt.idx) ELSE
    LET ev == read_envmap(a, lt.idx) IN
    IF ~ ev.ok THEN NoParse(ev.idx) ELSE
    LET i0 == ev.idx IN
    IF i0 + 1 > Len(a) \/ ~ converts(a[i0 + 1]) THEN NoParse(i0) ELSE
    IF i0 + 2 > Len(a) \/ ~ converts(a[i0 + 2]) THEN NoParse(i0 + 1) ELSE
    IF i0 + 3 > Len(a) \/ ~ converts(a[i0 + 3]) THEN NoParse(i0 + 2) ELSE
    LET ch == read_channels(a, i0 + 3, int(a[i0 + 3])) IN
    IF ~ ch.ok THEN NoParse(ch.idx) ELSE
    LET i1 == ch.idx IN
    IF i1 + 1 > Len(a) \/ ~ TagOk(SamplerTypes, a[i1 + 1]) THEN NoParse(i1) ELSE
    IF i1 + 3 > Len(a) THEN NoParse(Len(a)) ELSE
    [ok |-> TRUE, current_index |-> i1 + 3,
     camera_type |-> asTag(CameraTypes, a[11]),
     shapes |-> sh.recs, materials |-> mt.recs, area_lights |-> lt.recs,
     envmap |-> ev.recs,
     \* lines 382-383: an integer n becomes the pair (n, n)
     num_samples |-> <<int(a[i0 + 1]), int(a[i0 + 1])>>,
     max_bounces |-> int(a[i0 + 2]),
     channels |-> ch.recs,
     sampler_type |-> asTag(SamplerTypes, a[i1 + 1]),
     use_primary_edge_sampling |-> int(a[i1 + 2]) # 0,
     use_secondary_edge_sampling |-> int(a[i1 + 3]) # 0]

\* --------------------------------------------------------------- backward
None == [none |-> TRUE, shape |-> <<>>]
Zeros(shape) == [none |-> FALSE, shape |-> shape]

\* Shape.has_uvs() / Shape.has_normals(): the pointer given to the engine is
\* not null
has_ptr(ptr) == ptr # 0

\* the extents taken in the engine's order instead of the tensor's
d_texture_swapped(size, channels) ==
    IF size[1] = 0 THEN Zeros(<<channels>>)
    ELSE Zeros(<<size[1], size[2], size[3], channels>>)

\* lines 478-498: the gradient buffer of a texture whose engine record has
\* the extents size = (width, height, levels)
d_texture(size, channels) ==
    IF size[1] = 0 THEN Zeros(<<channels>>)
    ELSE Zeros(<<size[3], size[2], size[1], channels>>)

\* lines 457-464 and 602-608
d_shape_slots(sh) ==
    << Zeros(<<sh.num_vertices, 3>>),
       None,
       IF has_ptr(sh.uvs_ptr) THEN Zeros(<<sh.num_vertices, 2>>) ELSE None,
       IF has_ptr(sh.normals_ptr) THEN Zeros(<<sh.num_vertices, 3>>) ELSE None,
       None,
       None >>

\* lines 474-501 and 611-618
d_material_slots(m) ==
    << d_texture(m.diffuse_size, 3), None,
       d_texture(m.specular_size, 3), None,
       d_texture(m.roughness_size, 1), None,
       None >>

\* the intensity gradient put in the light's first slot
d_light_slots_shifted(l) == << Zeros(<<3>>), None, None >>

\* line 623: Tensor.cpu() gives a host copy, a tensor of the same shape
cpu(t) == [none |-> FALSE, shape |-> t.shape]

\* lines 522-526 and 621-624
d_light_slots(l) == << None, cpu(Zeros(<<3>>)), None >>

\* lines 529-547 and 626-641
d_envmap_slots(env) ==
    IF env.present
    THEN << Zeros(<<env.size[3], env.size[2], env.size[1], 3>>), None, None,
            Zeros(<<4, 4>>), None, None, None >>
    ELSE << None, None, None, None, None, None, None >>

\* one channel slot whatever the channel count
channel_slots_single(n) == << None >>

\* lines 646-647
channel_slots(n) == [c \in 1..n |-> None]

\* the light slots put before the material slots
ret_list_lights_first(c) ==
    << None, None, None, None,
       Zeros(<<3>>), Zeros(<<3>>), Zeros(<<3>>), Zeros(<<3, 3>>), Zeros(<<3, 3>>),
       None, None, None >>
    \o Concat([i \in 1..Len(c.shapes) |-> d_shape_slots(c.shapes[i])])
    \o Concat([i \in 1..Len(c.area_lights) |-> d_light_slots(c.area_lights[i])])
    \o Concat([i \in 1..Len(c.materials) |-> d_material_slots(c.materials[i])])
    \o d_envmap_slots(c.envmap)
    \o << None, None, None >>
    \o channel_slots(c.num_channels)
    \o << None, None, None >>

\* lines 587-651: the list backward returns, built from the retained context
ret_list(c) ==
    << None, None, None, None,
       Zeros(<<3>>), Zeros(<<3>>), Zeros(<<3>>), Zeros(<<3, 3>>), Zeros(<<3, 3>>),
       None, None, None >>
    \o Concat([i \in 1..Len(c.shapes) |-> d_shape_slots(c.shapes[i])])
    \o Concat([i \in 1..Len(c.materials) |-> d_material_slots(c.materials[i])])
    \o Concat([i \in 1..Len(c.area_lights) |-> d_light_slots(c.area_lights[i])])
    \o d_envmap_slots(c.envmap)
    \o << None, None, None >>
    \o channel_slots(c.num_channels)
    \o << None, None, None >>

\* the offset left out
backward_seed_same(seed, correlated) == seed

\* lines 556-558: the seed of the adjoint engine call
backward_seed(seed, correlated) ==
    IF ~ correlated THEN seed + SeedOffset ELSE seed

\* ------------------------------------------------------------------ state
VARIABLES
    scene,          \* the caller's pyredner.Scene
    opts,           \* the options the caller renders it with
    empty_ptr,      \* data_ptr of a tensor without elements: 0 or an address
    use_correlated_random_number,   \* the module's global
    requested,      \* the last value given to set_use_correlated_random_number
    args,           \* the list the last serialize_scene returned
    ctx,            \* the module's single Context object
    calls,          \* the render invocations so far: seed, list length, outcome
    log,            \* the engine calls so far
    grads,          \* what the last backward call returned, and the setting asked for then
    repeat          \* whether the caller renders more than once

vars == <<scene, opts, empty_ptr, use_correlated_random_number, requested,
          args, ctx, calls, log, grads, repeat>>

EmptyCtx ==
    [pyredner_scene |-> FALSE, owner |-> 0,
     shapes |-> <<>>, materials |-> <<>>, area_lights |-> <<>>,
     envmap |-> NoEnvmap,
     scene |-> [camera_type |-> "", use_primary_edge_sampling |-> FALSE,
                use_secondary_edge_sampling |-> FALSE],
     options |-> [seed |-> 0, num_samples |-> 0, max_bounces |-> 0,
                  channels |-> <<>>, sampler_type |-> ""],
     num_samples |-> <<0, 0>>, num_channels |-> 0]

NoGrads == [inv |-> 0, asked |-> FALSE, list |-> <<>>]

Start(cases, again) ==
    /\ \E c \in cases : scene = c.scene /\ opts = c.opts
    /\ empty_ptr \in {0, 1}
    /\ use_correlated_random_number = FALSE
    /\ requested = FALSE
    /\ args = <<>>
    /\ ctx = EmptyCtx
    /\ calls = <<>>
    /\ log = <<>>
    /\ grads = NoGrads
    /\ repeat = again

\* every scene and every choice of options, rendered once
Init == Start(Cases, FALSE)

\* the perspective scenes of one shape, one material and no light or
\* environment map, rendered up to MaxCalls times
SeqCases ==
    { c \in Cases : /\ c.scene.camera_type = "perspective"
                    /\ Len(c.scene.shapes) = 1
                    /\ Len(c.scene.materials) = 1
                    /\ Len(c.scene.area_lights) = 0
                    /\ ~ c.scene.envmap
                    /\ Len(c.opts.channels) = 1 }

\* (the one shape has UVs and normals: no address of an empty buffer is read)
InitSeq == Start(SeqCases, TRUE) /\ empty_ptr = 0

\* the shapes a texture tensor may come with: ranks 0 to 5
TexShapes ==
    { <<>>, <<3>>, <<4, 8>>, <<4, 8, 3>>, <<2, 4, 8, 3>>, <<2, 2, 4, 8, 3>> }

TexKinds == {"diffuse", "specular", "roughness"}

\* scenes of one material, one of whose textures has any of these shapes
TexCases ==
    { [scene |-> [MkScene(0, 1, 0, FALSE, 0) EXCEPT
                    !.materials = << [MkMaterial(0, 0) EXCEPT ![kind] = t] >>],
       opts |-> MkOptions(<<4>>, 1, 0)] : kind \in TexKinds, t \in TexShapes }

InitTex == Start(TexCases, FALSE)

\* two scenes that differ in their numbers of shapes and lights, for a
\* caller who renders one scene and then the other
OverlapCases ==
    { [scene |-> MkScene(1, 1, 0, FALSE, 0), opts |-> MkOptions(<<4>>, 1, 0)],
      [scene |-> MkScene(2, 1, 1, FALSE, 0), opts |-> MkOptions(<<4>>, 1, 0)] }

InitOverlap == Start(OverlapCases, TRUE)

\* ---------------------------------------------------------------- actions
\* lines 20-22: the assignment goes to a local name; the global is left alone
set_use_correlated_random_number(v) ==
    /\ requested' = v
    /\ use_correlated_random_number' = use_correlated_random_number
    /\ UNCHANGED <<scene, opts, empty_ptr, args, ctx, calls, log, grads, repeat>>

\* lines 24-26
get_use_correlated_random_number == use_correlated_random_number

\* lines 89-167: the context keeps the scene, the shapes of the lights are
\* annotated, and the list is built from the annotated scene
SerializeScene ==
    /\ scene' = [scene EXCEPT !.shapes = annotate(scene.shapes, scene.area_lights, 1)]
    /\ args' = serialize_scene(scene', opts)
    /\ ctx' = [ctx EXCEPT !.pyredner_scene = TRUE]
    /\ UNCHANGED <<opts, empty_ptr, use_correlated_random_number, requested,
                   calls, log, grads, repeat>>

\* the lists a caller may hand to render: the serialized list, or one with
\* slots missing at its end, or with slots too many
Inputs(a) ==
    {a} \cup { SubSeq(a, 1, Len(a) - k) : k \in 1..MaxTamper }
        \cup { a \o [i \in 1..k |-> EMPTY_TENSOR] : k \in 1..MaxTamper }

\* the context written before the engine call
Render_early(seed, a, e) ==
    /\ calls = <<>> \/ (repeat /\ Len(calls) < MaxCalls)
    /\ LET p == unpack(a, empty_ptr)
           inv == Len(calls) + 1
       IN  /\ calls' = Append(calls, [seed |-> seed, nargs |-> Len(a), p |-> p,
                                      returned |-> p.ok /\ e])
           /\ IF p.ok
              THEN log' = Append(log, [pass |-> "forward", inv |-> inv,
                                       seed |-> seed,
                                       num_samples |-> p.num_samples[1]])
              ELSE UNCHANGED log
           /\ IF p.ok
              THEN ctx' = [ctx EXCEPT
                                !.owner = inv,
                                !.shapes = p.shapes,
                                !.materials = p.materials,
                                !.area_lights = p.area_lights,
                                !.envmap = p.envmap,
                                !.scene = [camera_type |-> p.camera_type,
                                           use_primary_edge_sampling |->
                                               p.use_primary_edge_sampling,
                                           use_secondary_edge_sampling |->
                                               p.use_secondary_edge_sampling],
                                !.options = [seed |-> seed,
                                             num_samples |-> p.num_samples[1],
                                             max_bounces |-> p.max_bounces,
                                             channels |-> p.channels,
                                             sampler_type |-> p.sampler_type],
                                !.num_samples = p.num_samples,
                                !.num_channels = Len(p.channels)]
              ELSE UNCHANGED ctx
    /\ UNCHANGED <<scene, opts, empty_ptr, use_correlated_random_number,
                   requested, args, grads, repeat>>

\* lines 434-436 and 169-431: render(seed, *a) runs forward.  The engine call
\* (lines 400-405) returns (e) or raises; the context is written after it
\* has returned, and only a forward that returns hands out a backward
\* closure
Render(seed, a, e) ==
    /\ calls = <<>> \/ (repeat /\ Len(calls) < MaxCalls)
    /\ LET p == unpack(a, empty_ptr)
           inv == Len(calls) + 1
       IN  /\ calls' = Append(calls, [seed |-> seed, nargs |-> Len(a), p |-> p,
                                      returned |-> p.ok /\ e])
           /\ IF p.ok
              THEN log' = Append(log, [pass |-> "forward", inv |-> inv,
                                       seed |-> seed,
                                       num_samples |-> p.num_samples[1]])
              ELSE UNCHANGED log
           /\ IF p.ok /\ e
              THEN ctx' = [ctx EXCEPT
                                !.owner = inv,
                                !.shapes = p.shapes,
                                !.materials = p.materials,
                                !.area_lights = p.area_lights,
                                !.envmap = p.envmap,
                                !.scene = [camera_type |-> p.camera_type,
                                           use_primary_edge_sampling |->
                                               p.use_primary_edge_sampling,
                                           use_secondary_edge_sampling |->
                                               p.use_secondary_edge_sampling],
                                !.options = [seed |-> seed,
                                             num_samples |-> p.num_samples[1],
                                             max_bounces |-> p.max_bounces,
                                             channels |-> p.channels,
                                             sampler_type |-> p.sampler_type],
                                !.num_samples = p.num_samples,
                                !.num_channels = Len(p.channels)]
              ELSE UNCHANGED ctx
    /\ UNCHANGED <<scene, opts, empty_ptr, use_correlated_random_number,
                   requested, args, grads, repeat>>

\* the closures render has handed out: one per forward that returned
Closures == { i \in 1..Len(calls) : calls[i].returned }

NumBackward == Cardinality({ i \in 1..Len(log) : log[i].pass = "backward" })

\* lines 423-430: the records a forward that parsed p leaves in the context
retained(p) ==
    [shapes |-> p.shapes, materials |-> p.materials,
     area_lights |-> p.area_lights, envmap |-> p.envmap,
     num_samples |-> p.num_samples, num_channels |-> Len(p.channels)]

\* the closure working on the records of the forward that created it
Backward_captured(inv) ==
    /\ inv \in Closures
    /\ NumBackward < MaxBackward
    /\ LET s == backward_seed(ctx.options.seed, get_use_correlated_random_number)
       IN  /\ ctx' = [ctx EXCEPT !.options.seed = s,
                                 !.options.num_samples = ctx.num_samples[2]]
           /\ log' = Append(log, [pass |-> "backward", inv |-> inv, seed |-> s,
                                  num_samples |-> calls[inv].p.num_samples[2]])
    /\ grads' = [inv |-> inv, asked |-> requested,
                 list |-> ret_list(retained(calls[inv].p))]
    /\ UNCHANGED <<scene, opts, empty_ptr, use_correlated_random_number,
                   requested, args, calls, repeat>>

\* the offset added to a copy of the forward seed, the retained options
\* keeping the seed forward gave them
Backward_fresh(inv) ==
    /\ inv \in Closures
    /\ NumBackward < MaxBackward
    /\ LET s == backward_seed(calls[ctx.owner].seed, get_use_correlated_random_number)
       IN  /\ ctx' = [ctx EXCEPT !.options.num_samples = ctx.num_samples[2]]
           /\ log' = Append(log, [pass |-> "backward", inv |-> inv, seed |-> s,
                                  num_samples |-> ctx.num_samples[2]])
    /\ grads' = [inv |-> inv, asked |-> requested, list |-> ret_list(ctx)]
    /\ UNCHANGED <<scene, opts, empty_ptr, use_correlated_random_number,
                   requested, args, calls, repeat>>

\* lines 438-697: the backward closure of invocation inv; it reads the
\* context as it is now
Backward(inv) ==
    /\ inv \in Closures
    /\ NumBackward < MaxBackward
    /\ LET s == backward_seed(ctx.options.seed, get_use_correlated_random_number)
       IN  /\ ctx' = [ctx EXCEPT !.options.seed = s,
                                 !.options.num_samples = ctx.num_samples[2]]
           /\ log' = Append(log, [pass |-> "backward", inv |-> inv, seed |-> s,
                                  num_samples |-> ctx.num_samples[2]])
    /\ grads' = [inv |-> inv, asked |-> requested, list |-> ret_list(ctx)]
    /\ UNCHANGED <<scene, opts, empty_ptr, use_correlated_random_number,
                   requested, args, calls, repeat>>

\* the caller keeps to the documented order: a backward closure is invoked
\* before the next forward replaces the context
Next ==
    \/ SerializeScene
    \/ \E seed \in Seeds, a \in Inputs(args), e \in BOOLEAN :
          args # <<>> /\ Render(seed, a, e)
    \/ \E inv \in Closures : inv = ctx.owner /\ Backward(inv)
    \/ \E v \in BOOLEAN : set_use_correlated_random_number(v)

Spec == Init /\ [][Next]_vars

SpecSeq == InitSeq /\ [][Next]_vars

SpecTex == InitTex /\ [][Next]_vars

\* having rendered, the caller builds another scene and drops the list
\* serialized for the one before
NewScene ==
    /\ calls # <<>>
    /\ \E c \in OverlapCases : scene' = c.scene /\ opts' = c.opts
    /\ args' = <<>>
    /\ UNCHANGED <<empty_ptr, use_correlated_random_number, requested,
                   ctx, calls, log, grads, repeat>>

\* a caller who renders the list as serialized, builds new scenes between
\* renders and invokes any closure handed out so far, that of an earlier
\* forward included
NextOverlap ==
    \/ SerializeScene
    \/ \E seed \in Seeds, e \in BOOLEAN : args # <<>> /\ Render(seed, args, e)
    \/ \E inv \in Closures : Backward(inv)
    \/ NewScene

SpecOverlap == InitOverlap /\ [][NextOverlap]_vars

\* ----------------------------------------------------------------- claims
\* the names of the flattened slots that hold a count, an index, a flag or
\* a tag
NonDiffNames ==
    {"num_shapes", "num_materials", "num_lights", "clip_near", "resolution",
     "camera_type", "indices", "material_id", "light_id", "two_sided",
     "light_shape_id", "light_two_sided", "num_samples", "max_bounces",
     "num_channels", "channel", "sampler_type", "use_primary_edge_sampling",
     "use_secondary_edge_sampling"}

\* the names of the flattened slots that hold a differentiable tensor
DiffNames ==
    {"position", "look_at", "up", "ndc_to_cam", "cam_to_ndc",
     "vertices", "uvs", "normals",
     "diffuse_reflectance", "specular_reflectance", "roughness",
     "intensity", "envmap_values", "world_to_env"}

HasGrads == grads.inv # 0

\* invocation i of render was given the serialized list itself
Untampered(i) == calls[i].nargs = Len(args)

\* C1 as stated: the gradient list backward returns is exactly as long as
\* the list serialize_scene returned.
C1_SameLengthAsSerialized ==
    HasGrads => Len(grads.list) = Len(args)

\* C1, amended: the gradient list backward returns is one slot longer than
\* the list serialize_scene returned: the seed's slot comes first.
C1_LengthIsSerializedPlusSeed ==
    HasGrads => Len(grads.list) = Len(args) + 1

C1_Witness ==
    /\ HasGrads
    /\ Len(scene.shapes) = 2 /\ Len(scene.materials) = 2
    /\ Len(scene.area_lights) = 1 /\ scene.envmap
    /\ Len(opts.channels) = 2

\* C2: in the gradient list the seed's slot and every slot whose forward
\* input was a count, an index, a flag or a tag is the no-gradient marker.
C2_NonDifferentiableSlotsAreNone ==
    HasGrads =>
        /\ Len(grads.list) >= 1
        /\ grads.list[1] = None
        /\ \A i \in 1..Len(args) :
              args[i].f \in NonDiffNames =>
                  /\ i + 1 <= Len(grads.list)
                  /\ grads.list[i + 1] = None

C2_Witness ==
    /\ HasGrads
    /\ Len(scene.shapes) = 2 /\ Len(scene.materials) = 1
    /\ Len(scene.area_lights) = 2 /\ Len(opts.channels) = 2

\* C3: at every slot where the flattened list holds a differentiable
\* tensor, the gradient list holds a buffer of that tensor's shape.
C3_GradientShapesMatch ==
    HasGrads =>
        \A i \in 1..Len(args) :
            args[i].f \in DiffNames =>
                /\ i + 1 <= Len(grads.list)
                /\ ~ grads.list[i + 1].none
                /\ grads.list[i + 1].shape = args[i].shape

C3_Witness ==
    /\ HasGrads
    /\ scene.envmap
    /\ \E j \in 1..Len(scene.materials) :
          /\ scene.materials[j].diffuse = MipTex3
          /\ scene.materials[j].roughness = ConstTex1
    /\ \E i \in 1..Len(scene.shapes) :
          scene.shapes[i].uvs /\ scene.shapes[i].normals

\* the position (1-based) of the first slot of shape i, of the environment
\* map block and of the options, in a list laid out for scene s
ShapeBase(i) == 11 + 6 * (i - 1)
EnvBase(s) == 11 + 6 * Len(s.shapes) + 7 * Len(s.materials) + 3 * Len(s.area_lights)

\* C4: the length of the serialized list depends on the counts alone; an
\* absent UV or normal buffer holds its slot as an empty tensor, and the
\* environment-map block is 7 slots, all real or all empty.
C4_LengthDependsOnCountsOnly ==
    args # <<>> =>
        /\ Len(args) = 11 + 6 * Len(scene.shapes) + 7 * Len(scene.materials)
                          + 3 * Len(scene.area_lights) + 7 + 3
                          + Len(opts.channels) + 3
        /\ \A i \in 1..Len(scene.shapes) :
              /\ args[ShapeBase(i) + 1].f = "vertices"
              /\ IF scene.shapes[i].uvs
                 THEN args[ShapeBase(i) + 3].f = "uvs"
                 ELSE args[ShapeBase(i) + 3] = EMPTY_TENSOR
              /\ IF scene.shapes[i].normals
                 THEN args[ShapeBase(i) + 4].f = "normals"
                 ELSE args[ShapeBase(i) + 4] = EMPTY_TENSOR
              /\ args[ShapeBase(i) + 6].f = "light_id"
        /\ IF scene.envmap
           THEN \A d \in 1..7 : ~ is_empty_tensor(args[EnvBase(scene) + d])
           ELSE \A d \in 1..7 : args[EnvBase(scene) + d] = EMPTY_TENSOR
        /\ args[EnvBase(scene) + 8].f = "num_samples"

C4_Witness ==
    /\ args # <<>>
    /\ Len(scene.shapes) = 2
    /\ ~ scene.envmap
    /\ \E i \in 1..Len(scene.shapes) : ~ scene.shapes[i].uvs
    /\ \E i \in 1..Len(scene.shapes) : ~ scene.shapes[i].normals

\* C5 as stated: forward on the serialized list ends with its read index
\* at the length of the list and rebuilds the scene's shapes, materials
\* and lights with the scene's ids and tags.
C5_ForwardStaysInLockStep ==
    \A i \in 1..Len(calls) :
        Untampered(i) =>
            LET p == calls[i].p IN
            /\ p.ok
            /\ p.current_index = Len(args)
            /\ Len(p.shapes) = Len(scene.shapes)
            /\ Len(p.materials) = Len(scene.materials)
            /\ Len(p.area_lights) = Len(scene.area_lights)
            /\ \A k \in 1..Len(scene.shapes) :
                  /\ p.shapes[k].material_id = scene.shapes[k].material_id
                  /\ p.shapes[k].light_id = scene.shapes[k].light_id
            /\ \A l \in 1..Len(scene.area_lights) :
                  p.area_lights[l].shape_id = scene.area_lights[l].shape_id
            /\ p.camera_type = scene.camera_type
            /\ p.channels = opts.channels
            /\ p.sampler_type = opts.sampler_type

\* C6: with correlated sampling disabled, every forward engine call receives
\* the seed its invocation was given, and a backward engine call that
\* follows its own forward call receives that seed plus the offset.
C6_BackwardSeedIsForwardSeedPlusOffset ==
    ~ use_correlated_random_number =>
        \A i \in 1..Len(log) :
            /\ log[i].pass = "forward" => log[i].seed = calls[log[i].inv].seed
            /\ ( /\ i > 1
                 /\ log[i].pass = "backward"
                 /\ log[i - 1].pass = "forward"
                 /\ log[i - 1].inv = log[i].inv )
               => log[i].seed = log[i - 1].seed + SeedOffset

\* two identical invocations with the same seed, each forward then backward
C6_Witness ==
    /\ Len(log) = 4
    /\ log[1].pass = "forward" /\ log[2].pass = "backward"
    /\ log[3].pass = "forward" /\ log[4].pass = "backward"
    /\ calls[1].seed = calls[2].seed
    /\ ~ use_correlated_random_number

\* C7 as stated: after set_use_correlated_random_number(v),
\* get_use_correlated_random_number() returns v, and a backward call adds
\* the offset exactly when v is False.
C7_SetterTakesEffect ==
    /\ get_use_correlated_random_number = requested
    /\ LET n == Len(log) IN
       ( /\ n >= 2
         /\ log[n].pass = "backward"
         /\ log[n - 1].pass = "forward"
         /\ log[n - 1].inv = log[n].inv )
       => log[n].seed = IF grads.asked THEN log[n - 1].seed
                        ELSE log[n - 1].seed + SeedOffset

\* C8 as stated: for an integer n both engine calls use n samples; for a
\* pair (f, b) the forward engine call uses f and the backward one uses b.
C8_SampleCountsPerPass ==
    \A i \in 1..Len(calls) :
        Untampered(i) =>
            /\ calls[i].p.ok
            /\ \A k \in 1..Len(log) :
                  log[k].inv = i =>
                      log[k].num_samples =
                          IF log[k].pass = "forward" THEN opts.num_samples[1]
                          ELSE opts.num_samples[Len(opts.num_samples)]

C10_WrongFieldCountAborts ==
    \A i \in 1..Len(calls) :
        ~ Untampered(i) =>
            /\ ~ calls[i].p.ok
            /\ \A k \in 1..Len(log) : log[k].inv # i

\* the ranks forward is said to accept for a texture tensor
GoodRank(shape) == Len(shape) = 1 \/ Len(shape) = 4

\* the extents a texture of an accepted rank is said to be rebuilt with
SaidExtents(shape) ==
    IF Len(shape) = 1 THEN <<0, 0, 0>> ELSE <<shape[3], shape[2], shape[1]>>

\* C11 as stated: forward dispatches on the rank of a texture tensor only.
\* A diffuse, specular or roughness tensor of rank 1 is rebuilt as a
\* constant texture (extents 0,0,0), one of rank 4 as a mipmap with
\* width=shape[2], height=shape[1], levels=shape[0], and a tensor of any
\* other rank aborts the reconstruction, for each of the three kinds.
C11_OtherRanksAbort ==
    \A i \in 1..Len(calls) :
        Untampered(i) =>
            \A j \in 1..Len(scene.materials) :
                LET m == scene.materials[j]
                    p == calls[i].p
                IN  IF GoodRank(m.diffuse) /\ GoodRank(m.specular)
                       /\ GoodRank(m.roughness)
                    THEN /\ p.ok
                         /\ p.materials[j].diffuse_size = SaidExtents(m.diffuse)
                         /\ p.materials[j].specular_size = SaidExtents(m.specular)
                         /\ p.materials[j].roughness_size = SaidExtents(m.roughness)
                    ELSE ~ p.ok

\* the position in the log of the last backward call
LastBackward ==
    CHOOSE b \in 1..Len(log) :
        /\ log[b].pass = "backward"
        /\ \A n \in b + 1..Len(log) : log[n].pass # "backward"

\* the invocation of the last forward that returned before position b
ForwardBefore(b) ==
    LET f == CHOOSE n \in 1..b - 1 :
                 /\ log[n].pass = "forward" /\ log[n].inv \in Closures
                 /\ \A n2 \in n + 1..b - 1 :
                        ~ (log[n2].pass = "forward" /\ log[n2].inv \in Closures)
    IN  log[f].inv

\* C12: there is one retained context slot.  Each forward that returns
\* overwrites it, and a backward closure works on what the slot holds when
\* it runs: its gradient list and its sample count are those of the last
\* forward that returned before it, which is its own forward when the
\* caller keeps forward and backward in lock step, and a later forward
\* (B's counts, lengths and buffer shapes) when A's closure is invoked after
\* forward(B).
C12_BackwardUsesTheSlotAsItIs ==
    /\ ctx.owner # 0 =>
          /\ ctx.owner = CHOOSE i \in Closures : \A i2 \in Closures : i2 <= i
          /\ ctx.shapes = calls[ctx.owner].p.shapes
          /\ ctx.materials = calls[ctx.owner].p.materials
          /\ ctx.area_lights = calls[ctx.owner].p.area_lights
          /\ ctx.envmap = calls[ctx.owner].p.envmap
    /\ HasGrads =>
          LET b == LastBackward
              i == ForwardBefore(b)
          IN  /\ log[b].inv = grads.inv
              /\ grads.list = ret_list(retained(calls[i].p))
              /\ log[b].num_samples = calls[i].p.num_samples[2]
              /\ Len(grads.list) =
                    12 + 6 * Len(calls[i].p.shapes) + 7 * Len(calls[i].p.materials)
                       + 3 * Len(calls[i].p.area_lights) + EnvmapSlots
                       + 3 + Len(calls[i].p.channels) + 3

\* A's closure has run after forward(B), the two scenes differing in their
\* counts, and its list has the length of B's
C12_Witness ==
    /\ HasGrads /\ Len(calls) = 2 /\ Closures = {1, 2}
    /\ grads.inv = 1 /\ ctx.owner = 2
    /\ log[Len(log)].pass = "backward"
    /\ log[Len(log) - 1].pass = "forward" /\ log[Len(log) - 1].inv = 2
    /\ Len(calls[1].p.shapes) # Len(calls[2].p.shapes)
    /\ Len(calls[1].p.area_lights) # Len(calls[2].p.area_lights)
    /\ Len(grads.list) # Len(ret_list(retained(calls[1].p)))
    /\ Len(grads.list) = Len(ret_list(retained(calls[2].p)))

\* the number of slots of the gradient list before the first material slot
\* and before the first light slot of a forward that parsed p
MaterialBase(p) == 12 + 6 * Len(p.shapes)
LightBase(p) == MaterialBase(p) + 7 * Len(p.materials)

\* C13: for a scene with L >= 1 area lights the backward pass returns a
\* list that holds, for each light in declaration order, the three slots
\* (marker, intensity gradient of shape (3,), marker); they come after all
\* material slots and before the seven slots of the environment map.
C13_LightSlotsInOrder ==
    HasGrads =>
        LET p == calls[grads.inv].p
            L == Len(p.area_lights)
        IN  L >= 1 =>
              /\ \A l \in 1..L :
                    /\ grads.list[LightBase(p) + 3 * (l - 1) + 1] = None
                    /\ grads.list[LightBase(p) + 3 * (l - 1) + 2] = Zeros(<<3>>)
                    /\ grads.list[LightBase(p) + 3 * (l - 1) + 3] = None
              /\ \A j \in 1..Len(p.materials) :
                    SubSeq(grads.list, MaterialBase(p) + 7 * (j - 1) + 1,
                           MaterialBase(p) + 7 * j)
                        = d_material_slots(p.materials[j])
              /\ SubSeq(grads.list, LightBase(p) + 3 * L + 1,
                        LightBase(p) + 3 * L + EnvmapSlots)
                    = d_envmap_slots(p.envmap)

\* backward has returned for a scene of two lights, with materials before
\* them and an environment map after them
C13_Witness ==
    /\ HasGrads
    /\ Len(calls[grads.inv].p.area_lights) = 2
    /\ Len(calls[grads.inv].p.materials) >= 1
    /\ calls[grads.inv].p.envmap.present
    /\ grads.list[LightBase(calls[grads.inv].p) + 5] = Zeros(<<3>>)

\* C14 as stated: for a shape whose UVs (normals) are None, serialize_scene
\* writes an empty tensor in that slot, forward hands the engine a null
\* pointer for the buffer, and the backward list holds the no-gradient
\* marker at that slot; for a shape that has the buffer, the backward list
\* holds a gradient buffer of shape (N,2) (respectively (N,3)) there, N
\* being the shape's vertex count.
C14_AbsentBuffersHaveNoGradient ==
    \A i \in 1..Len(scene.shapes) :
        LET sh == scene.shapes[i]
            u == ShapeBase(i) + 3
            n == ShapeBase(i) + 4
        IN  /\ args # <<>> =>
                  /\ ~ sh.uvs => args[u] = EMPTY_TENSOR
                  /\ ~ sh.normals => args[n] = EMPTY_TENSOR
            /\ \A c \in 1..Len(calls) :
                  Untampered(c) /\ calls[c].p.ok =>
                      /\ ~ sh.uvs => calls[c].p.shapes[i].uvs_ptr = 0
                      /\ ~ sh.normals => calls[c].p.shapes[i].normals_ptr = 0
            /\ HasGrads /\ Untampered(grads.inv) =>
                  /\ grads.list[u + 1] =
                        IF sh.uvs THEN Zeros(<<sh.nv, 2>>) ELSE None
                  /\ grads.list[n + 1] =
                        IF sh.normals THEN Zeros(<<sh.nv, 3>>) ELSE None

\* the eight context fields forward writes
EightFields ==
    <<ctx.shapes, ctx.materials, ctx.area_lights, ctx.envmap, ctx.scene,
      ctx.options, ctx.num_samples, ctx.num_channels>>

\* the eight fields all hold what one forward, the one that wrote them, read
FromOneForward ==
    ctx.owner # 0 =>
        LET p == calls[ctx.owner].p IN
        /\ calls[ctx.owner].returned
        /\ ctx.shapes = p.shapes
        /\ ctx.materials = p.materials
        /\ ctx.area_lights = p.area_lights
        /\ ctx.envmap = p.envmap
        /\ ctx.scene.camera_type = p.camera_type
        /\ ctx.options.max_bounces = p.max_bounces
        /\ ctx.options.channels = p.channels
        /\ ctx.num_samples = p.num_samples
        /\ ctx.num_channels = Len(p.channels)

\* this step is a forward call that does not return
ForwardFails ==
    /\ Len(calls') = Len(calls) + 1
    /\ ~ calls'[Len(calls')].returned

\* C15: a forward call that fails before it returns, while parsing the
\* list or in the engine call, leaves the eight retained context fields as
\* they were; the fields are written together after the engine call has
\* returned, so the context never holds records of two forward calls.
C15_FailedForwardKeepsContext ==
    /\ [] FromOneForward
    /\ [][ForwardFails => EightFields' = EightFields]_vars

\* a forward has returned, and a second one, given another seed, has built
\* its scene and failed in the engine call
C15_Witness ==
    /\ Len(calls) = 2
    /\ calls[1].returned
    /\ calls[2].p.ok /\ ~ calls[2].returned
    /\ calls[2].seed # calls[1].seed
    /\ ctx.owner = 1
    /\ ctx.options.seed = calls[1].seed

\* the number of backward calls logged from position f + 1 to position i
BackwardCalls(f, i) ==
    Cardinality({ n \in f + 1..i : log[n].pass = "backward" })

\* C16: backward adds the offset to the seed of the retained options in
\* place and never restores it.  With correlated sampling disabled, the
\* k-th call of the backward closure of a forward with seed s hands the
\* engine the seed s + k * 1000003, so only the first call's seed differs
\* from the forward seed by exactly the offset.
C16_SeedGrowsWithEveryBackward ==
    ~ use_correlated_random_number =>
        \A i \in 1..Len(log) :
            log[i].pass = "backward" =>
                LET f == CHOOSE n \in 1..i - 1 :
                             /\ log[n].pass = "forward" /\ log[n].inv = log[i].inv
                    k == BackwardCalls(f, i)
                IN  /\ log[i].seed = log[f].seed + k * SeedOffset
                    /\ ctx.owner = log[i].inv => ctx.options.seed >= log[i].seed
                    /\ (log[i].seed = log[f].seed + SeedOffset) <=> (k = 1)

\* the closure of one forward has been invoked twice
C16_Witness ==
    /\ Len(log) = 3
    /\ log[1].pass = "forward"
    /\ log[2].pass = "backward" /\ log[2].inv = log[1].inv
    /\ log[3].pass = "backward" /\ log[3].inv = log[1].inv
    /\ log[3].seed = log[1].seed + 2 * SeedOffset
    /\ ctx.options.seed = log[3].seed

====
